---- MODULE Spec2Model ----
(***************************************************************************)
(* A model of the pasts executor (src/src/executor.rs) in its two builds:  *)
(* the threaded build (std, not wasm32), where every spawn starts a thread *)
(* that parks on a flag and a condition variable, and the cooperative      *)
(* build (no std or wasm32), where one thread sweeps a table of task slots.*)
(* The Join combinator used by examples/tasks.rs is modelled last.         *)
(***************************************************************************)
EXTENDS Integers, Sequences, FiniteSets, TLC

\* ------------------------------------------------------------------ bounds
MaxPolls == 3        \* polls of the operation one run of execute may make
MaxWakes == 3        \* wake() invocations in one run
NumWakers == 2       \* threads other than the executor that hold the Waker
MaxHandlePolls == 3  \* polls of one threaded JoinHandle
MaxSpawns == 3       \* spawn calls on the cooperative executor
MaxSweeps == 1       \* wake calls on the cooperative executor outside spawn
MaxCoopPolls == 3    \* polls of cooperative JoinHandles, all handles together
MaxCycles == 3       \* polling cycles of one Join combinator

None == "None"
Pending == "Pending"
Outputs == {"Hello", "World"}
WakerThreads == 1..NumWakers
Contexts == {"cx1", "cx2"}

VARIABLES
    build,        \* which cfg branch of executor.rs is compiled
    \* ---- threaded Exec (executor.rs 48-60)
    state,        \* Exec.state: AtomicBool
    execPc,       \* where the thread running Exec::execute is
    cvarWaiters,  \* number of threads blocked in cvar.wait (0 or 1)
    wakerPc,      \* per waker thread: where it is inside Exec::wake
    polls,        \* number of f.poll calls made by execute so far
    wakes,        \* number of Exec::wake invocations so far
    value,        \* the value execute broke out of its loop with
    pendingWakes, \* wake invocations since the flag was last consumed
    consumed,     \* times the park loop consumed the flag (true -> false)
    \* ---- threaded spawn / JoinHandle (executor.rs 196-210, 241-278)
    cellOutput,   \* waker.0 : Option<T>
    cellWaker,    \* waker.1 : Option<Waker>
    threadHandle, \* JoinHandle.handle : Option<thread::JoinHandle<()>>
    dropPc,       \* where the thread dropping the JoinHandle is
    handlePolls,  \* results of the polls of the JoinHandle, oldest first
    invoked,      \* the wakers the worker's completion step invoked
    lastCx,       \* the context's waker of the latest JoinHandle poll
    \* ---- cooperative Exec (executor.rs 61-63) and its JoinHandles (251-252)
    tasks,        \* Exec.tasks: Vec<Task>; Vec index i is tasks[i + 1]
    handles,      \* per spawned operation: the u32 of its JoinHandle
    opDone,       \* the operations whose poll has returned Ready
    nextOp,       \* the number of the next spawn call
    sweeps,       \* wake calls made from outside spawn
    handleLog,    \* per JoinHandle: what each of its polls returned
    panicked,     \* an index was out of bounds
    polled,       \* the operations the latest sweep polled, in order
    nested,       \* the latest spawn made from inside a poll of a sweep
    \* ---- the Join combinator over App (examples/tasks.rs 7-9, 32-34)
    scenario,     \* which collection App.tasks was built with
    app,          \* the caller state: App { tasks }
    joinResult,   \* "Running", or "Finished" once a handler returned Ready
    joinLog,      \* the handler invocations, oldest first
    joinReady,    \* per polling cycle: the sources that were ready in it
    fired         \* the fused tasks that have yielded their value

execVars == <<state, execPc, cvarWaiters, wakerPc, polls, wakes, value,
              pendingWakes, consumed>>
handleVars == <<cellOutput, cellWaker, threadHandle, dropPc, handlePolls,
                invoked, lastCx>>

coopVars == <<tasks, handles, opDone, nextOp, sweeps, handleLog, panicked,
              polled, nested>>

joinVars == <<scenario, app, joinResult, joinLog, joinReady, fired>>

vars == <<build, execVars, handleVars, coopVars, joinVars>>

\* What the steps of one build leave alone: the state of the other models.
notThreaded == <<build, coopVars, joinVars>>
notCoop == <<build, execVars, handleVars, joinVars>>
notJoin == <<build, execVars, handleVars, coopVars>>

\* ------------------------------------------------- threaded build: helpers

\* AtomicBool::compare_and_swap(current, new): returns the previous value and
\* stores new only when the previous value equals current.
CompareAndSwap(cell, current, new) ==
    [prev |-> cell, next |-> IF cell = current THEN new ELSE cell]

\* Condvar::notify_one: wakes one thread blocked in wait, if there is one; a
\* notification with no waiter is not remembered.
NotifyOne(pc, waiters) ==
    IF waiters > 0 /\ pc = "waiting" THEN "woken" ELSE pc

\* Exec::new (threaded)
ExecNew ==
    /\ state = TRUE
    /\ execPc = "poll"
    /\ cvarWaiters = 0

\* ------------------------------------------------- threaded build: execute

\* executor.rs 124: one poll of the operation; Ready breaks out of the loop.
\* The operation decides the outcome; the last poll the bound allows is Ready.
ExecPoll ==
    /\ execPc = "poll"
    /\ polls < MaxPolls
    /\ polls' = polls + 1
    /\ \E r \in Outputs \cup {Pending} :
        /\ (r = Pending) => (polls + 1 < MaxPolls)
        /\ IF r = Pending
             THEN /\ execPc' = "lock"
                  /\ value' = value
             ELSE /\ execPc' = "returned"
                  /\ value' = r
    /\ UNCHANGED <<pendingWakes, consumed, state, cvarWaiters, wakerPc, wakes, handleVars,
                   notThreaded>>

\* executor.rs 128: self.mutex.lock(). Only this thread ever locks Exec.mutex
\* (wake does not), so the lock is always free.
ExecLock ==
    /\ execPc = "lock"
    /\ execPc' = "check"
    /\ UNCHANGED <<pendingWakes, consumed, state, cvarWaiters, wakerPc, polls, wakes, value, handleVars,
                   notThreaded>>

\* The flag test of the park loop, executor.rs 129.
ParkCheck(flag) == CompareAndSwap(flag, TRUE, FALSE)

\* executor.rs 129: while !state.compare_and_swap(true, false): the flag is
\* consumed and the loop left when it was true, otherwise the body is entered.
ExecCheck ==
    /\ execPc = "check"
    /\ LET cas == ParkCheck(state) IN
        /\ state' = cas.next
        /\ execPc' = IF cas.prev THEN "poll" ELSE "towait"
        /\ pendingWakes' = IF cas.prev THEN 0 ELSE pendingWakes
        /\ consumed' = IF cas.prev THEN consumed + 1 ELSE consumed
    /\ UNCHANGED <<cvarWaiters, wakerPc, polls, wakes, value, handleVars,
                   notThreaded>>

\* executor.rs 130: cvar.wait(guard) releases the mutex and blocks.
ExecWait ==
    /\ execPc = "towait"
    /\ execPc' = "waiting"
    /\ cvarWaiters' = cvarWaiters + 1
    /\ UNCHANGED <<pendingWakes, consumed, state, wakerPc, polls, wakes, value, handleVars,
                   notThreaded>>

\* executor.rs 130: wait returns (after a notification, or spuriously) with
\* the mutex held again and the loop condition is evaluated once more.
ExecResume ==
    /\ execPc = "woken"
    /\ execPc' = "check"
    /\ UNCHANGED <<pendingWakes, consumed, state, cvarWaiters, wakerPc, polls, wakes, value, handleVars,
                   notThreaded>>

\* Condvar::wait may return without a notification (std documents it).
SpuriousWakeup ==
    /\ execPc = "waiting"
    /\ execPc' = "woken"
    /\ cvarWaiters' = cvarWaiters - 1
    /\ UNCHANGED <<pendingWakes, consumed, state, wakerPc, polls, wakes, value, handleVars,
                   notThreaded>>

\* --------------------------------------------------- threaded build: wake

\* The flag update of wake, executor.rs 86.
WakeSet(flag) == CompareAndSwap(flag, FALSE, TRUE)

\* executor.rs 86: a thread holding the Waker calls wake; the flag is set and,
\* when it was false before, the thread goes on to notify the condvar.
WakeCall(w) ==
    /\ wakerPc[w] = "idle"
    /\ wakes < MaxWakes
    /\ execPc \notin {"returned", "finished"}
    /\ wakes' = wakes + 1
    /\ pendingWakes' = pendingWakes + 1
    /\ UNCHANGED consumed
    /\ LET cas == WakeSet(state) IN
        /\ state' = cas.next
        /\ wakerPc' = [wakerPc EXCEPT ![w] = IF ~cas.prev THEN "notify" ELSE "idle"]
    /\ UNCHANGED <<execPc, cvarWaiters, polls, value, handleVars,
                   notThreaded>>

\* executor.rs 88: self.cvar.notify_one()
WakeNotify(w) ==
    /\ wakerPc[w] = "notify"
    /\ wakerPc' = [wakerPc EXCEPT ![w] = "idle"]
    /\ execPc' = NotifyOne(execPc, cvarWaiters)
    /\ cvarWaiters' = IF execPc' # execPc THEN cvarWaiters - 1 ELSE cvarWaiters
    /\ UNCHANGED <<pendingWakes, consumed, state, polls, wakes, value, handleVars,
                   notThreaded>>

\* ------------------------------------- threaded build: spawn and JoinHandle

\* executor.rs 198-201: spawn makes the shared cell (None, None) and starts
\* the worker thread; the JoinHandle holds the cell and Some(thread handle).
SpawnThreaded ==
    /\ cellOutput = None
    /\ cellWaker = None
    /\ threadHandle = "Some"
    /\ dropPc = "live"
    /\ handlePolls = <<>>
    /\ invoked = <<>>
    /\ lastCx = None

\* executor.rs 203-207: the worker's completion step, under the cell's mutex:
\* the output is stored and the saved waker, if any, is taken and invoked.
CompleteNoWake(out, wk, output) ==
    [output  |-> output,
     waker   |-> None,
     invoked |-> <<>>]

Complete(out, wk, output) ==
    [output  |-> output,
     waker   |-> None,
     invoked |-> IF wk # None THEN <<wk>> ELSE <<>>]

WorkerComplete ==
    /\ execPc = "returned"
    /\ LET c == Complete(cellOutput, cellWaker, value) IN
        /\ cellOutput' = c.output
        /\ cellWaker' = c.waker
        /\ invoked' = invoked \o c.invoked
    /\ execPc' = "finished"
    /\ UNCHANGED <<pendingWakes, consumed, state, cvarWaiters, wakerPc, polls, wakes, value,
                   threadHandle, dropPc, handlePolls, lastCx,
                   notThreaded>>

\* executor.rs 271-277: JoinHandle::poll under the cell's mutex: the output is
\* taken when present, otherwise the context's waker is saved.
ThreadedPollNoTake(out, wk, cx) ==
    IF out # None
        THEN [result |-> out, output |-> out, waker |-> wk]
        ELSE [result |-> Pending, output |-> None, waker |-> cx]

ThreadedPoll(out, wk, cx) ==
    IF out # None
        THEN [result |-> out, output |-> None, waker |-> wk]
        ELSE [result |-> Pending, output |-> None, waker |-> cx]

JoinHandlePoll ==
    /\ dropPc = "live"
    /\ Len(handlePolls) < MaxHandlePolls
    /\ \E cx \in Contexts :
        LET p == ThreadedPoll(cellOutput, cellWaker, cx) IN
            /\ cellOutput' = p.output
            /\ cellWaker' = p.waker
            /\ handlePolls' = Append(handlePolls, p.result)
            /\ lastCx' = cx
    /\ UNCHANGED <<execVars, threadHandle, dropPc, invoked,
                   notThreaded>>

\* std::thread::JoinHandle::join returns once the thread has finished.
ThreadDetach(pc) == TRUE

ThreadJoin(pc) == pc = "finished"

\* executor.rs 261: drop takes the thread handle and calls join on it.
DropBegin ==
    /\ dropPc = "live"
    /\ threadHandle = "Some"
    /\ threadHandle' = None
    /\ dropPc' = "joining"
    /\ UNCHANGED <<execVars, cellOutput, cellWaker, handlePolls, invoked,
                   lastCx,
                   notThreaded>>

\* executor.rs 261: join (and with it drop) returns.
DropReturn ==
    /\ dropPc = "joining"
    /\ ThreadJoin(execPc)
    /\ dropPc' = "dropped"
    /\ UNCHANGED <<execVars, cellOutput, cellWaker, threadHandle, handlePolls,
                   invoked, lastCx,
                   notThreaded>>

\* --------------------------------------------------- cooperative build

\* The Task enum (executor.rs 32-36). A Future carries the number of its
\* operation, the handle its async block captured (executor.rs 225-231) and
\* the output g().await will produce; an Output carries the boxed value and
\* the operation that produced it.
Empty == [kind |-> "Empty", op |-> 0, handle |-> 0, val |-> 0]
TaskFuture(op, handle, val) == [kind |-> "Future", op |-> op, handle |-> handle, val |-> val]
TaskOutput(op, handle, val) == [kind |-> "Output", op |-> op, handle |-> handle, val |-> val]

\* The factory passed by spawn call number op is one whose future produces a
\* value no other spawned future produces.
OutputOf(op) == op

\* Exec::new (cooperative), executor.rs 77-81
CoopExecNew == tasks = <<>>

\* Task::take, executor.rs 40-45: the slot is left Empty and its former
\* content is returned.
Take(t, i) == [slot |-> t[i + 1], tasks |-> [t EXCEPT ![i + 1] = Empty]]

\* Exec::find_handle, executor.rs 137-145: the index of the first Empty slot,
\* or the length of the table when there is none.
FindHandleAppend(t) == Len(t)

FindHandle(t) ==
    IF \E i \in 1..Len(t) : t[i].kind = "Empty"
        THEN (CHOOSE i \in 1..Len(t) :
                /\ t[i].kind = "Empty"
                /\ \A j \in 1..(i - 1) : t[j].kind # "Empty") - 1
        ELSE Len(t)

\* Vec::resize_with(n, || Task::Empty): truncates to n slots or pads with
\* Empty up to n slots.
ResizeWith(t, n) ==
    IF n <= Len(t)
        THEN SubSeq(t, 1, n)
        ELSE t \o [k \in 1..(n - Len(t)) |-> Empty]

\* One iteration of the loop of Exec::wake, executor.rs 103-109, for task_id i:
\* the slot is taken; a Future is polled; when the poll returns Ready the async
\* block of spawn has written Task::Output at its captured handle (executor.rs
\* 229-230), when it returns Pending the future is put back at task_id; any
\* other content of the slot is dropped with the taken value.
SweepSlotPutBack(t, i, done) ==
    LET tk == Take(t, i)
        f == tk.slot
    IN  IF f.kind = "Future"
            THEN [tk.tasks EXCEPT ![i + 1] = f]
            ELSE tk.tasks

SweepSlotDrop(t, i, done) ==
    LET tk == Take(t, i)
        f == tk.slot
    IN  IF f.kind = "Future" /\ f.op \in done
            THEN [tk.tasks EXCEPT ![f.handle + 1] =
                      TaskOutput(f.op, f.handle, f.val)]
            ELSE tk.tasks

SweepSlot(t, i, done) ==
    LET tk == Take(t, i)
        f == tk.slot
    IN  IF f.kind = "Future"
            THEN IF f.op \in done
                    THEN [tk.tasks EXCEPT ![f.handle + 1] =
                              TaskOutput(f.op, f.handle, f.val)]
                    ELSE [tk.tasks EXCEPT ![i + 1] = f]
            ELSE tk.tasks

\* The loop of Exec::wake, executor.rs 101-110: task_id runs from i to len - 1
\* with len read before the loop. done is the set of operations whose poll
\* returns Ready when they are polled in this sweep.
RECURSIVE SweepFrom(_, _, _, _)
SweepFrom(t, i, len, done) ==
    IF i >= len THEN t ELSE SweepFrom(SweepSlot(t, i, done), i + 1, len, done)

\* Exec::wake (cooperative), executor.rs 93-111
Sweep(t, done) == SweepFrom(t, 0, Len(t), done)

\* The operations whose futures the loop of Exec::wake polls (executor.rs
\* 106) from task_id i on, in the order of the polls.
RECURSIVE PolledFrom(_, _, _, _)
PolledFrom(t, i, len, done) ==
    IF i >= len
        THEN <<>>
        ELSE (IF t[i + 1].kind = "Future" THEN <<t[i + 1].op>> ELSE <<>>)
                 \o PolledFrom(SweepSlot(t, i, done), i + 1, len, done)

\* The table as Exec::execute leaves it before its sweep, executor.rs 154-156.
Stored(t, handle, f) == [ResizeWith(t, handle + 1) EXCEPT ![handle + 1] = f]

\* The operations a sweep of t polls.
Running(t) == {t[i].op : i \in {j \in 1..Len(t) : t[j].kind = "Future"}}

\* Exec::execute (cooperative), executor.rs 148-160: the table is resized to
\* handle + 1 slots, the future is stored at handle and one sweep is made.
ExecuteNoWake(t, handle, f, done) == Stored(t, handle, f)

Execute(t, handle, f, done) ==
    LET resized == ResizeWith(t, handle + 1)
        stored == [resized EXCEPT ![handle + 1] = f]
    IN  Sweep(stored, done)

\* spawn (cooperative branch), executor.rs 216-235, called from outside any
\* poll: the operation nextOp is created, and the polls of the sweep return
\* Ready for the operations in done.
CoopSpawn ==
    /\ ~panicked
    /\ nextOp <= MaxSpawns
    /\ LET handle == FindHandle(tasks)
           others == Running(ResizeWith(tasks, handle + 1))
       IN  \E done \in SUBSET (others \cup {nextOp}) :
            /\ tasks' = Execute(tasks, handle,
                                TaskFuture(nextOp, handle, OutputOf(nextOp)),
                                done)
            /\ opDone' = opDone \cup done
            /\ handles' = [handles EXCEPT ![nextOp] = handle]
            /\ LET st == Stored(tasks, handle,
                              TaskFuture(nextOp, handle, OutputOf(nextOp)))
               IN  polled' = [by  |-> "spawn",
                              ops |-> PolledFrom(st, 0, Len(st), done)]
    /\ nextOp' = nextOp + 1
    /\ UNCHANGED <<sweeps, handleLog, panicked, nested, notCoop>>

\* A wake of the cooperative executor from outside any poll (a Waker handed
\* to an operation is invoked by an event source): one sweep.
CoopWake ==
    /\ ~panicked
    /\ sweeps < MaxSweeps
    /\ sweeps' = sweeps + 1
    /\ \E done \in SUBSET Running(tasks) :
        /\ tasks' = Sweep(tasks, done)
        /\ opDone' = opDone \cup done
        /\ polled' = [by  |-> "wake",
                      ops |-> PolledFrom(tasks, 0, Len(tasks), done)]
    /\ UNCHANGED <<handles, nextOp, handleLog, panicked, nested, notCoop>>

\* JoinHandle::poll (cooperative branch), executor.rs 282-298: the slot at
\* self.handle is taken; an Output is returned as Ready(val), anything else
\* is Pending.
CoopPoll(t, handle) ==
    LET tk == Take(t, handle)
    IN  [tasks |-> tk.tasks,
         ready |-> tk.slot.kind = "Output",
         val   |-> IF tk.slot.kind = "Output" THEN tk.slot.val ELSE 0]

RECURSIVE SumLen(_, _)
SumLen(log, n) == IF n = 0 THEN 0 ELSE Len(log[n]) + SumLen(log, n - 1)

\* The number of JoinHandle polls made so far.
CoopPolls == SumLen(handleLog, MaxSpawns)

\* A poll of the JoinHandle that spawn call h returned. Indexing the Vec at or
\* beyond its length panics (executor.rs 284).
JoinHandlePollCoop(h) ==
    /\ ~panicked
    /\ h < nextOp
    /\ CoopPolls < MaxCoopPolls
    /\ IF handles[h] >= Len(tasks)
         THEN /\ panicked' = TRUE
              /\ UNCHANGED <<tasks, handleLog>>
         ELSE LET p == CoopPoll(tasks, handles[h]) IN
              /\ tasks' = p.tasks
              /\ handleLog' = [handleLog EXCEPT ![h] = Append(@,
                     [ready |-> p.ready, val |-> p.val, done |-> h \in opDone])]
              /\ UNCHANGED panicked
    /\ UNCHANGED <<handles, opDone, nextOp, sweeps, polled, nested, notCoop>>

Ops == 1..MaxSpawns

\* No spawn has been made from inside a poll.
NoNested == [slot |-> 0, spawner |-> 0, child |-> 0, ready |-> FALSE]

\* The write-back that ends the poll of the future f taken from task_id i.
\* Ready: the async block of spawn indexes the table at its captured handle
\* with get_mut(..).unwrap() (executor.rs 229-230). Pending: Exec::wake
\* indexes it at task_id (executor.rs 107). Either panics at or beyond the
\* length of the table.
WriteBackPanics(t, i, f, ready) ==
    IF ready THEN f.handle >= Len(t) ELSE i >= Len(t)

WriteBack(t, i, f, ready) ==
    IF ready
        THEN [t EXCEPT ![f.handle + 1] = TaskOutput(f.op, f.handle, f.val)]
        ELSE [t EXCEPT ![i + 1] = f]

\* A wake from outside any poll whose sweep polls, at task_id i, an operation
\* that calls spawn during that poll (executor.rs 106, then 216-235 inside
\* it). The slots below i have had their iteration; slot i is Empty (103)
\* while its future runs, so find_handle (137-145) sees it; Exec::execute
\* resizes the table to handle + 1, stores the child and makes a whole sweep
\* of its own (155-159), whose polls return Ready for doneN. When spawn has
\* returned, the poll of the spawner ends and writes back; the outer loop then
\* goes on to task_id i + 1 while that is below the length it read before the
\* loop (101-103), and indexing at or beyond the present length panics.
CoopWakeSpawning ==
    /\ ~panicked
    /\ sweeps < MaxSweeps
    /\ nextOp <= MaxSpawns
    /\ sweeps' = sweeps + 1
    /\ nextOp' = nextOp + 1
    /\ \E i \in 0..(Len(tasks) - 1) :
        /\ tasks[i + 1].kind = "Future"
        /\ \E done \in SUBSET Running(SubSeq(tasks, 1, i + 1)) :
            LET len == Len(tasks)
                f == tasks[i + 1]
                ready == f.op \in done
                tk == Take(SweepFrom(tasks, 0, i, done), i)
                handle == FindHandle(tk.tasks)
                child == TaskFuture(nextOp, handle, OutputOf(nextOp))
                stored == Stored(tk.tasks, handle, child)
            IN  \E doneN \in SUBSET Running(stored) :
                LET inner == Sweep(stored, doneN)
                    back == IF WriteBackPanics(inner, i, f, ready)
                                THEN inner
                                ELSE WriteBack(inner, i, f, ready)
                IN  /\ tasks' = back
                    /\ panicked' = (\/ WriteBackPanics(inner, i, f, ready)
                                    \/ (i + 1 < len /\ i + 1 >= Len(back)))
                    /\ opDone' = opDone \cup done \cup doneN
                    /\ handles' = [handles EXCEPT ![nextOp] = handle]
                    /\ polled' = [by  |-> "wake",
                                  ops |-> PolledFrom(tasks, 0, i + 1, done)
                                            \o PolledFrom(stored, 0,
                                                          Len(stored), doneN)]
                    /\ nested' = [slot |-> i, spawner |-> f.op,
                                  child |-> nextOp, ready |-> ready]
    /\ UNCHANGED <<handleLog, notCoop>>

InitCoopVars ==
    /\ CoopExecNew
    /\ handles = [h \in Ops |-> 0]
    /\ opDone = {}
    /\ nextOp = 1
    /\ sweeps = 0
    /\ handleLog = [h \in Ops |-> <<>>]
    /\ panicked = FALSE
    /\ polled = [by |-> "none", ops |-> <<>>]
    /\ nested = NoNested

\* ------------------------------------------------- the Join combinator

\* examples/tasks.rs 26-29: two fused tasks that yield "Hello" and "World".
HelloWorld == <<"Hello", "World">>

\* The collections App.tasks is built with: the one of examples/tasks.rs, and
\* the two of the design's test properties: three tasks A, B, C, and three
\* Notifiers, which yield an event in every cycle they are ready in.
Collection(sc) ==
    CASE sc = "HelloWorld" -> HelloWorld
      [] sc = "ABC"        -> <<"A", "B", "C">>
      [] sc = "Notifiers"  -> <<"n0", "n1", "n2">>

Scenarios == {"HelloWorld", "ABC", "Notifiers"}

\* examples/tasks.rs 25-30: App { tasks: vec![..] }
AppNew(sc) == [tasks |-> Collection(sc)]

\* The selector of examples/tasks.rs 33: |s| &mut s.tasks[..], the whole
\* collection, each source addressed by its position.
SelectorTail(s) == Tail(s.tasks)

Selector(s) == s.tasks

\* Vec::swap_remove(id): the element at id is removed and the last element
\* takes its place.
SwapRemove(v, id) ==
    SubSeq([v EXCEPT ![id + 1] = v[Len(v)]], 1, Len(v) - 1)

\* App::completion, examples/tasks.rs 12-22: the reported index is
\* swap-removed, and the result is Ready(Exit) when the collection is empty.
CompletionKeep(s, id, val) ==
    [app  |-> s,
     poll |-> IF Len(s.tasks) = 0 THEN "Exit" ELSE Pending]

CompletionCheckFirst(s, id, val) ==
    [app  |-> [s EXCEPT !.tasks = SwapRemove(s.tasks, id)],
     poll |-> IF Len(s.tasks) = 0 THEN "Exit" ELSE Pending]

Completion(s, id, val) ==
    LET removed == SwapRemove(s.tasks, id)
    IN  [app  |-> [s EXCEPT !.tasks = removed],
         poll |-> IF Len(removed) = 0 THEN "Exit" ELSE Pending]

\* A handler over Notifiers that records the event and keeps going.
KeepGoing(s, id, val) == [app |-> s, poll |-> Pending]

\* The handler registered for the scenario's collection.
Handler(sc, s, id, val) ==
    IF sc = "Notifiers" THEN KeepGoing(s, id, val) ELSE Completion(s, id, val)

\* poll_next of one source in a cycle in which the sources in ready can make
\* progress: a Notifier yields an event whenever it is ready, a fused task
\* yields its value once and is Pending ever after.
PollNext(sc, src, ready, done) ==
    /\ src \in ready
    /\ sc = "Notifiers" \/ src \notin done

\* One polling cycle from source index i on: the sources of the selector are
\* visited in ascending index order; the handler of a source that yields an
\* event runs at once, on the caller state as it is then, and the cycle ends
\* when a handler returns a final result or the index passes the end of the
\* collection as it is then.
RECURSIVE VisitFrom(_, _, _, _)
VisitFrom(st, i, ready, cycle) ==
    IF st.result # "Running" \/ i >= Len(Selector(st.app))
        THEN st
        ELSE
            LET src == Selector(st.app)[i + 1] IN
            IF ~PollNext(st.sc, src, ready, st.fired)
                THEN VisitFrom(st, i + 1, ready, cycle)
                ELSE
                    LET h == Handler(st.sc, st.app, i, src)
                        entry == [cycle |-> cycle, id |-> i, val |-> src,
                                  len |-> Len(st.app.tasks)]
                    IN  VisitFrom([sc     |-> st.sc,
                                   app    |-> h.app,
                                   result |-> IF h.poll = Pending
                                                THEN "Running" ELSE "Finished",
                                   log    |-> Append(st.log, entry),
                                   fired  |-> st.fired \cup {src}],
                                  i + 1, ready, cycle)

\* The sources of the collection as it is now.
Sources(s) == {s.tasks[k] : k \in 1..Len(s.tasks)}

\* One poll of the Join future: one polling cycle, in which the sources in
\* ready are able to yield.
JoinPoll ==
    /\ joinResult = "Running"
    /\ Len(joinReady) < MaxCycles
    /\ \E ready \in SUBSET Sources(app) :
        LET st == VisitFrom([sc |-> scenario, app |-> app, result |-> joinResult,
                             log |-> joinLog, fired |-> fired],
                            0, ready, Len(joinReady) + 1)
        IN  /\ app' = st.app
            /\ joinResult' = st.result
            /\ joinLog' = st.log
            /\ fired' = st.fired
            /\ joinReady' = Append(joinReady, ready)
    /\ UNCHANGED <<scenario, notJoin>>

\* examples/tasks.rs 24-35: App::main builds the App and awaits the Join.
InitJoinVars ==
    /\ scenario \in Scenarios
    /\ app = AppNew(scenario)
    /\ joinResult = "Running"
    /\ joinLog = <<>>
    /\ joinReady = <<>>
    /\ fired = {}

\* ------------------------------------------ threaded build: specification

InitThreadedVars ==
    /\ ExecNew
    /\ wakerPc = [w \in WakerThreads |-> "idle"]
    /\ polls = 0
    /\ wakes = 0
    /\ pendingWakes = 0
    /\ consumed = 0
    /\ value = None
    /\ SpawnThreaded

\* The models are run one at a time: the other two stay as constructed, with
\* App built over the collection of examples/tasks.rs.
InitThreaded ==
    /\ build = "threaded"
    /\ InitThreadedVars
    /\ InitCoopVars
    /\ InitJoinVars
    /\ scenario = "HelloWorld"

ExecStep ==
    \/ ExecPoll
    \/ ExecLock
    \/ ExecCheck
    \/ ExecWait
    \/ ExecResume
    \/ WorkerComplete

NextThreaded ==
    \/ ExecStep
    \/ SpuriousWakeup
    \/ \E w \in WakerThreads : WakeCall(w)
    \/ \E w \in WakerThreads : WakeNotify(w)
    \/ JoinHandlePoll
    \/ DropBegin
    \/ DropReturn

SpecThreaded == InitThreaded /\ [][NextThreaded]_vars

\* A thread that can take a step eventually takes it: the worker, a thread
\* inside wake, and the thread blocked in join. Nothing obliges another thread
\* to call wake, to poll the JoinHandle or to drop it, and a spurious return
\* of Condvar::wait is never guaranteed.
FairThreaded ==
    /\ SpecThreaded
    /\ WF_vars(ExecStep)
    /\ \A w \in WakerThreads : WF_vars(WakeNotify(w))
    /\ WF_vars(DropReturn)

\* --------------------------------------- cooperative build: specification

InitCoop ==
    /\ build = "coop"
    /\ InitThreadedVars
    /\ InitCoopVars
    /\ InitJoinVars
    /\ scenario = "HelloWorld"

NextCoop ==
    \/ CoopSpawn
    \/ CoopWake
    \/ \E h \in Ops : JoinHandlePollCoop(h)

SpecCoop == InitCoop /\ [][NextCoop]_vars

\* The cooperative build with operations that spawn while they are polled.
NextCoopNested ==
    \/ CoopSpawn
    \/ CoopWake
    \/ CoopWakeSpawning
    \/ \E h \in Ops : JoinHandlePollCoop(h)

SpecCoopNested == InitCoop /\ [][NextCoopNested]_vars

\* ------------------------------------------- either build: specification

\* executor.rs 16, 25: the two forms of the executor are alternatives of one
\* cfg condition (std and not wasm32, or not); a program is built with one.
Builds == {"threaded", "coop"}

InitExec ==
    /\ build \in Builds
    /\ InitThreadedVars
    /\ InitCoopVars
    /\ InitJoinVars
    /\ scenario = "HelloWorld"

NextExec ==
    \/ build = "threaded" /\ NextThreaded
    \/ build = "coop" /\ NextCoop

SpecExec == InitExec /\ [][NextExec]_vars

\* ------------------------------------------------ Join: specification

InitJoin ==
    /\ build = "threaded"
    /\ InitThreadedVars
    /\ InitCoopVars
    /\ InitJoinVars

NextJoin == JoinPoll

SpecJoin == InitJoin /\ [][NextJoin]_vars

\* ------------------------------------------------------------ properties

\* C1. Threaded executor, no lost wake-up: the thread running execute is
\* never blocked in the condition wait while the ready flag is true and no
\* thread is on its way to notify the condvar. In such a state a wake has been
\* invoked since the flag was last consumed, every later wake finds the flag
\* already true and does not notify, and only a spurious return of wait could
\* bring the executor back to poll.
NoLostWakeup ==
    ~(/\ execPc = "waiting"
      /\ state = TRUE
      /\ \A w \in WakerThreads : wakerPc[w] = "idle")

\* The polls of the threaded JoinHandle that returned Ready.
ReadyPolls == {i \in DOMAIN handlePolls : handlePolls[i] # Pending}

\* C2. Threaded JoinHandle, exactly-once delivery: at most one poll of the
\* JoinHandle returns Ready, the value it returns is the value the worker's
\* execute returned, the cell's output is None from that poll on, and every
\* later poll returns Pending.
ThreadedExactlyOnce ==
    /\ Cardinality(ReadyPolls) <= 1
    /\ \A i \in ReadyPolls :
        /\ handlePolls[i] = value
        /\ value \in Outputs
        /\ cellOutput = None
        /\ \A j \in DOMAIN handlePolls : j > i => handlePolls[j] = Pending

\* A poll found nothing, the next one delivered the output, a later one found
\* nothing again.
ThreadedExactlyOnceWitness ==
    /\ Len(handlePolls) = 3
    /\ handlePolls[1] = Pending
    /\ handlePolls[2] = value
    /\ handlePolls[2] \in Outputs
    /\ handlePolls[3] = Pending

\* C3. Cooperative JoinHandle, exactly-once delivery: of the polls of the
\* JoinHandle of spawn call h, the first one made after operation h completed
\* returns Ready with the output of operation h, and every other poll returns
\* Pending.
CoopExactlyOnce ==
    \A h \in 1..(nextOp - 1) :
        \A i \in DOMAIN handleLog[h] :
            LET e == handleLog[h][i]
                first == e.done /\ \A j \in 1..(i - 1) : ~handleLog[h][j].done
            IN  IF first THEN e.ready /\ e.val = OutputOf(h) ELSE ~e.ready

\* The JoinHandle of operation op is polled in this step.
PolledNow(op) == op \in Ops /\ handleLog'[op] # handleLog[op]

\* C4. Cooperative slot lifecycle: in every step a slot keeps its content or
\* moves along Empty -> HoldingOperation (by spawn, whose own sweep may take
\* it on to HoldingOutput) -> HoldingOutput of the same operation -> Empty by
\* a poll of the JoinHandle of that operation.
SlotStep(a, b, i) ==
    \/ b = a
    \/ /\ a.kind = "Empty"
       /\ nextOp' = nextOp + 1
       /\ b.op = nextOp
       /\ b.kind \in {"Future", "Output"}
    \/ /\ a.kind = "Future"
       /\ b = TaskOutput(a.op, a.handle, a.val)
    \/ /\ a.kind = "Output"
       /\ b = Empty
       /\ PolledNow(a.op)
       /\ handles[a.op] = i - 1

SlotLifecycle ==
    [][\A i \in 1..Len(tasks) :
          i <= Len(tasks') => SlotStep(tasks[i], tasks'[i], i)]_vars

\* The JoinHandle of spawn call h has returned Ready.
Yielded(h) == \E i \in DOMAIN handleLog[h] : handleLog[h][i].ready

\* C5. Cooperative slot index stability: no two JoinHandles that have not
\* yet yielded their output hold the same slot index.
IndexStability ==
    \A h1, h2 \in 1..(nextOp - 1) :
        (h1 # h2 /\ ~Yielded(h1) /\ ~Yielded(h2)) => handles[h1] # handles[h2]

\* The indices of the Empty slots of a table.
EmptyIndices(t) == {i \in 0..(Len(t) - 1) : t[i + 1].kind = "Empty"}

\* C6. Cooperative first-fit slot reuse: every spawn places the new operation
\* at the lowest index whose slot is Empty, without growing the table, and at
\* index len, growing the table by one slot, only when no slot is Empty; when
\* spawn returns the operation (or its output) is in that slot.
FirstFitReuse ==
    [][nextOp' = nextOp + 1 =>
          LET h == handles'[nextOp] IN
              /\ IF EmptyIndices(tasks) # {}
                   THEN /\ h \in EmptyIndices(tasks)
                        /\ \A j \in EmptyIndices(tasks) : h <= j
                        /\ Len(tasks') <= Len(tasks)
                   ELSE /\ h = Len(tasks)
                        /\ Len(tasks') = Len(tasks) + 1
              /\ h < Len(tasks')
              /\ tasks'[h + 1].op = nextOp
              /\ tasks'[h + 1].kind \in {"Future", "Output"}]_vars

\* A then B were spawned at indices 0 and 1, the JoinHandle of A returned A's
\* output, and C, spawned next, is in slot 0 of a table of at most two slots.
FirstFitReuseWitness ==
    /\ nextOp = 4
    /\ handles[1] = 0
    /\ handles[2] = 1
    /\ handles[3] = 0
    /\ \E i \in DOMAIN handleLog[1] :
        handleLog[1][i].ready /\ handleLog[1][i].val = OutputOf(1)
    /\ tasks[1].op = 3
    /\ Len(tasks) <= 2

\* C7. Cooperative slot table length is monotonic: no step shortens the
\* table; a spawn that reuses an Empty slot leaves the length unchanged and a
\* spawn that appends increases it by exactly one.
LengthMonotonic ==
    [][/\ Len(tasks') >= Len(tasks)
       /\ nextOp' = nextOp + 1 =>
            IF EmptyIndices(tasks) # {}
                THEN Len(tasks') = Len(tasks)
                ELSE Len(tasks') = Len(tasks) + 1]_vars

\* C8. Thread-join-on-drop: drop has returned only if the worker thread has
\* finished (execute returned and the completion step ran), and a drop that
\* is blocked in join while the worker has finished eventually returns.
JoinOnDrop ==
    /\ [](dropPc = "dropped" => execPc = "finished")
    /\ (dropPc = "joining" /\ execPc = "finished") ~> (dropPc = "dropped")

\* drop is blocked in join while the worker is parked in the condition wait
\* with its operation unfinished.
JoinOnDropWitness ==
    /\ dropPc = "joining"
    /\ execPc = "waiting"
    /\ polls >= 1

\* The values the handler has been invoked with.
Delivered == {joinLog[i].val : i \in DOMAIN joinLog}

\* C9. Join end-to-end scenario: over the collection of "Hello" and "World"
\* with the handler App::completion, the combinator is resolved exactly when
\* the handler has been invoked twice, no value is delivered twice, and at
\* resolution both values have been delivered and the collection is empty.
EndToEnd ==
    scenario = "HelloWorld" =>
        /\ Len(joinLog) <= 2
        /\ (joinResult = "Finished") <=> (Len(joinLog) = 2)
        /\ \A i, j \in DOMAIN joinLog :
            i # j => joinLog[i].val # joinLog[j].val
        /\ joinResult = "Finished" =>
            /\ Delivered = {"Hello", "World"}
            /\ app.tasks = <<>>

\* The combinator resolved with "World" observed first.
EndToEndWitness ==
    /\ scenario = "HelloWorld"
    /\ joinResult = "Finished"
    /\ Len(joinLog) = 2
    /\ joinLog[1].val = "World"
    /\ joinLog[2].val = "Hello"

\* The handler invocations of polling cycle c, oldest first.
InCycle(c) == SelectSeq(joinLog, LAMBDA e : e.cycle = c)

\* C10. Join per-cycle order: the handler invocations of one polling cycle
\* carry ascending source indices, and a cycle in which the three Notifiers
\* are all ready invokes the handler for index 0, then 1, then 2, each with
\* the event of the Notifier at that index.
PerCycleOrder ==
    /\ \A i, j \in DOMAIN joinLog :
        (i < j /\ joinLog[i].cycle = joinLog[j].cycle)
            => joinLog[i].id < joinLog[j].id
    /\ scenario = "Notifiers" =>
        \A c \in DOMAIN joinReady :
            joinReady[c] = {"n0", "n1", "n2"} =>
                /\ Len(InCycle(c)) = 3
                /\ \A k \in 1..3 :
                    /\ InCycle(c)[k].id = k - 1
                    /\ InCycle(c)[k].val = Collection("Notifiers")[k]

\* A cycle in which all three Notifiers were ready, after a cycle in which
\* only some of them were.
PerCycleOrderWitness ==
    /\ scenario = "Notifiers"
    /\ Len(joinReady) = 2
    /\ joinReady[1] = {"n1"}
    /\ joinReady[2] = {"n0", "n1", "n2"}
    /\ Len(joinLog) = 4

\* C11. Join swap-removal index invalidation: over the collection A, B, C,
\* when B's event is the first one handled, the handler's swap-removal of
\* index 1 leaves A, C, so C is addressed as index 1; every later invocation
\* with index 1 carries C's event and none carries B's again; and every
\* handler invocation, in every collection, receives an index inside the
\* collection as it is when the handler is invoked.
SwapRemovalIndex ==
    /\ \A k \in DOMAIN joinLog : joinLog[k].id < joinLog[k].len
    /\ (scenario = "ABC" /\ Len(joinLog) >= 1 /\ joinLog[1].val = "B") =>
        /\ joinLog[1].id = 1
        /\ Len(joinLog) = 1 => app.tasks = <<"A", "C">>
        /\ \A k \in 2..Len(joinLog) :
            /\ joinLog[k].val # "B"
            /\ joinLog[k].id = 1 => joinLog[k].val = "C"

\* B was handled first and the next event, reported with index 1, is C's.
SwapRemovalIndexWitness ==
    /\ scenario = "ABC"
    /\ Len(joinLog) = 2
    /\ joinLog[1].val = "B"
    /\ joinLog[2].id = 1
    /\ joinLog[2].val = "C"
    /\ app.tasks = <<"A">>

\* C12. Cooperative JoinHandle poll while the operation is still running: a
\* poll of a JoinHandle whose slot holds an operation returns Pending and
\* leaves the slot holding that same operation.
PollKeepsOperation ==
    [][\A h \in 1..(nextOp - 1) :
          (/\ PolledNow(h)
           /\ handles[h] < Len(tasks)
           /\ tasks[handles[h] + 1].kind = "Future")
          => /\ ~handleLog'[h][Len(handleLog'[h])].ready
             /\ tasks'[handles[h] + 1] = tasks[handles[h] + 1]]_vars

\* The latest poll of the threaded JoinHandle returned Pending.
LastPollPending ==
    /\ handlePolls # <<>>
    /\ handlePolls[Len(handlePolls)] = Pending

\* C13. Threaded JoinHandle completion handshake: while the worker has not
\* run its completion step, a poll that returned Pending has left its waker in
\* the cell; and whenever the output is stored and the latest poll returned
\* Pending, the completion step has invoked exactly the waker of that poll,
\* once.
CompletionHandshake ==
    /\ Len(invoked) <= 1
    /\ (execPc # "finished" /\ LastPollPending) => cellWaker = lastCx
    /\ (cellOutput # None /\ LastPollPending) =>
        /\ invoked = <<lastCx>>
        /\ cellWaker = None

\* Two polls returned Pending, the second with waker cx2, and the completion
\* step then stored the output and invoked cx2.
CompletionHandshakeWitness ==
    /\ Len(handlePolls) = 2
    /\ LastPollPending
    /\ lastCx = "cx2"
    /\ cellOutput \in Outputs
    /\ invoked = <<"cx2">>

\* The Vec indices of the slots of t that hold an operation.
FutureIndices(t) == {i \in 0..(Len(t) - 1) : t[i + 1].kind = "Future"}

\* The Vec index at which t holds operation op.
IndexOf(t, op) ==
    CHOOSE i \in FutureIndices(t) : t[i + 1].op = op

\* C14. Cooperative wake sweep: a wake made from outside any poll polls every
\* slot that holds an operation exactly once, in ascending index order; after
\* it each such slot holds the output of its operation if that poll returned
\* Ready, and the same operation at the same index if it returned Pending.
WakeSweep ==
    [][sweeps' = sweeps + 1 =>
          /\ polled'.by = "wake"
          /\ Len(polled'.ops) = Cardinality(FutureIndices(tasks))
          /\ \A k \in DOMAIN polled'.ops :
                \E i \in FutureIndices(tasks) : tasks[i + 1].op = polled'.ops[k]
          /\ \A k, l \in DOMAIN polled'.ops :
                k < l => IndexOf(tasks, polled'.ops[k])
                            < IndexOf(tasks, polled'.ops[l])
          /\ Len(tasks') = Len(tasks)
          /\ \A i \in FutureIndices(tasks) :
                LET f == tasks[i + 1] IN
                    IF f.op \in opDone'
                        THEN tasks'[i + 1] = TaskOutput(f.op, i, OutputOf(f.op))
                        ELSE tasks'[i + 1] = f]_vars

\* A wake polled operations 1 and 2 in that order; 1 returned Ready and its
\* slot holds its output, 2 returned Pending and is still in slot 1.
WakeSweepWitness ==
    /\ polled = [by |-> "wake", ops |-> <<1, 2>>]
    /\ Len(tasks) = 2
    /\ tasks[1] = TaskOutput(1, 0, OutputOf(1))
    /\ tasks[2] = TaskFuture(2, 1, OutputOf(2))

\* C15. Wake idempotence (threaded): after k >= 1 wake invocations made
\* since the flag was last consumed the flag is true; the executor never
\* polls more often than once at the start plus once for each consumption of
\* the flag, whatever k was; and the one re-poll those wakes call for is made:
\* the executor is not left blocked in the condition wait with nobody on the
\* way to notify it.
WakeIdempotent ==
    /\ pendingWakes >= 1 => state = TRUE
    /\ polls <= 1 + consumed
    /\ ~(/\ pendingWakes >= 1
         /\ execPc = "waiting"
         /\ \A w \in WakerThreads : wakerPc[w] = "idle")

\* The operations a sequence of polls names.
Range(q) == {q[k] : k \in DOMAIN q}

\* C16. Cooperative spawn starts the operation synchronously: when a spawn
\* made from outside any poll returns, its sweep has polled the new
\* operation; the slot of the returned handle holds the operation's output if
\* that poll returned Ready and the operation itself otherwise.
SpawnStartsOperation ==
    [][nextOp' = nextOp + 1 =>
          LET h == handles'[nextOp] IN
              /\ polled'.by = "spawn"
              /\ nextOp \in Range(polled'.ops)
              /\ h < Len(tasks')
              /\ IF nextOp \in opDone'
                   THEN tasks'[h + 1] = TaskOutput(nextOp, h, OutputOf(nextOp))
                   ELSE tasks'[h + 1] = TaskFuture(nextOp, h, OutputOf(nextOp))]_vars

\* The second spawn polled the first operation, which stayed Pending, and the
\* new one, whose first poll returned Ready: its output is in slot 1.
SpawnStartsOperationWitness ==
    /\ nextOp = 3
    /\ polled = [by |-> "spawn", ops |-> <<1, 2>>]
    /\ opDone = {2}
    /\ handles[2] = 1
    /\ tasks[2] = TaskOutput(2, 1, OutputOf(2))
    /\ tasks[1] = TaskFuture(1, 0, OutputOf(1))

\* C17. No poll after Done, in both forms of the executor: once execute has
\* received Ready from its operation it makes no further poll, and no sweep
\* polls an operation whose poll has returned Ready before.
NoPollAfterDone ==
    [][/\ value # None => polls' = polls
       /\ (nextOp' # nextOp \/ sweeps' # sweeps) =>
            \A k \in DOMAIN polled'.ops : polled'.ops[k] \notin opDone]_vars

\* Operation 1 has returned Ready and a later wake polled operation 2 only.
NoPollAfterDoneWitness ==
    /\ build = "coop"
    /\ 1 \in opDone
    /\ polled = [by |-> "wake", ops |-> <<2>>]

\* C19. The threaded executor does not poll without cause: the ready flag is
\* true only when a wake has been invoked since the executor last consumed
\* it, the number of polls is at most 1 plus the number of wake invocations,
\* and an operation that is never woken is polled at most once.
PollsOnlyWithCause ==
    /\ state = TRUE => pendingWakes >= 1
    /\ polls <= 1 + wakes
    /\ wakes = 0 => polls <= 1

\* C18. Cooperative bounds safety: the slot index of every JoinHandle that
\* has not yet yielded its output is smaller than the current length of the
\* slot table, so the indexing in JoinHandle::poll never goes out of bounds.
HandleInBounds ==
    /\ ~panicked
    /\ \A h \in 1..(nextOp - 1) : ~Yielded(h) => handles[h] < Len(tasks)

\* C20. Spawn from inside a running cooperative operation: the new operation
\* is never placed in the slot index of the operation that is being polled,
\* and when that poll returns Pending the write-back of the sweep leaves the
\* new operation, or its output, in its slot.
NestedSpawnSafe ==
    [][nested' # nested =>
          LET c == nested'.child
              h == handles'[c]
          IN  /\ h # nested'.slot
              /\ ~nested'.ready =>
                    /\ ~panicked'
                    /\ h < Len(tasks')
                    /\ tasks'[h + 1].op = c
                    /\ tasks'[h + 1].kind \in {"Future", "Output"}]_vars

====
